---- MODULE Spec2Model ----
(***************************************************************************)
(* Halal compliance demo (src/app.py): the session state of the Streamlit  *)
(* application (seed data, certificate list, pending inbox, approval and   *)
(* reminder logs, sidebar widgets), its button handlers, the pure helpers   *)
(* that derive certificate and supplier status, and the filename guesser   *)
(* that pre-fills the intake form.                                         *)
(*                                                                         *)
(* The session is followed in Core mode (the sidebar radio's default), the *)
(* plan in which the intake, approval and reminder handlers exist; Basic   *)
(* mode shows the same dataframes and offers the sidebar only.  The UTC    *)
(* clock behind the "Time" and "Submitted" stamps is not followed: every   *)
(* stamp reads the same.  date.today() is followed, day by day.            *)
(*                                                                         *)
(* Text that the program parses or formats (dates, certificate ids) is a   *)
(* tuple of one-character strings, so that parsing and formatting are      *)
(* computed and not assumed.  Free text that the program only copies       *)
(* (supplier names, materials, notes) is a TLA+ string.                    *)
(***************************************************************************)
EXTENDS Integers, Sequences, FiniteSets, TLC

VARIABLES
    data,               \* st.session_state.data: [suppliers, certificates]
    approval_log,       \* st.session_state.approval_log, newest first
    reminder_log,       \* st.session_state.reminder_log, newest first
    inbox_submissions,  \* st.session_state.inbox_submissions, newest first
    expiring_window,    \* sidebar slider "Expiring window (days)"
    today,              \* date.today() as the handlers read it
    last_submit,        \* the last "Submit for Approval" click: the form's expiry row, and
                        \* whether the handler reported st.error or st.success
    submits,            \* history: successful submits since the last reset
    shown,              \* the page of one script run looked at on its own (df_c, df_s, KPIs,
                        \* alerts); only the specification of the status helpers fills it
    intake_file,        \* the name of the file in the uploader of the intake tab, as text
    guessed             \* what guess_from_filename made of it; only the specification of
                        \* the filename guesser fills these two

vars == <<data, approval_log, reminder_log, inbox_submissions,
          expiring_window, today, last_submit, submits, shown, intake_file, guessed>>

\* the uploader and the pre-filled form of the intake tab
intake == <<intake_file, guessed>>

-----------------------------------------------------------------------------
(* Bounds of the model *)

\* successful submits explored between two resets
MaxSubmits == 2
\* reminders explored between two resets
MaxReminders == 2
\* midnights that pass during the session
MaxDays == 1
\* certificates in the lists the supplier aggregator is probed with
MaxRows == 2
\* days before today / after today + window that the status engine is probed with
Margin == 3
\* names in a supplier list that the filename guesser is given
MaxNames == 2

(* Program constants *)

WindowMin == 7
WindowMax == 90
WindowDefault == 30

-----------------------------------------------------------------------------
(* Characters and decimal text *)

DigitChars == <<"0", "1", "2", "3", "4", "5", "6", "7", "8", "9">>

IsDigit(c) == \E i \in 1..10 : DigitChars[i] = c

DigitVal(c) == (CHOOSE i \in 1..10 : DigitChars[i] = c) - 1

\* s[i], or "" past either end (a regex position that has no character)
At(s, i) == IF i \in 1..Len(s) THEN s[i] ELSE ""

RECURSIVE Decimal(_)
Decimal(n) ==
    IF n < 10 THEN <<DigitChars[n + 1]>>
    ELSE Decimal(n \div 10) \o <<DigitChars[(n % 10) + 1]>>

RECURSIVE ZeroPad(_, _)
ZeroPad(s, width) == IF Len(s) >= width THEN s ELSE ZeroPad(<<"0">> \o s, width)

\* f"{n:03d}", "%m", "%d": at least `width` digits, zero-filled on the left
FormatD(n, width) == ZeroPad(Decimal(n), width)

-----------------------------------------------------------------------------
(* datetime.date *)

Date(y, m, d) == [year |-> y, month |-> m, day |-> d]

IsLeap(y) == (y % 4 = 0) /\ ((y % 100 # 0) \/ (y % 400 = 0))

DaysInMonth(y, m) ==
    IF m = 2 THEN (IF IsLeap(y) THEN 29 ELSE 28)
    ELSE IF m \in {4, 6, 9, 11} THEN 30 ELSE 31

DaysBeforeYear(y) ==
    (y - 1) * 365 + ((y - 1) \div 4) - ((y - 1) \div 100) + ((y - 1) \div 400)

RECURSIVE DaysBeforeMonth(_, _)
DaysBeforeMonth(y, m) ==
    IF m = 1 THEN 0 ELSE DaysBeforeMonth(y, m - 1) + DaysInMonth(y, m - 1)

ToOrdinal(dt) == DaysBeforeYear(dt.year) + DaysBeforeMonth(dt.year, dt.month) + dt.day

\* date(y, m, d) raises ValueError outside these ranges
ValidDate(y, m, d) ==
    /\ y \in 1..9999
    /\ m \in 1..12
    /\ d \in 1..DaysInMonth(y, m)

\* dt + timedelta(days=1)
NextDate(dt) ==
    IF dt.day < DaysInMonth(dt.year, dt.month) THEN Date(dt.year, dt.month, dt.day + 1)
    ELSE IF dt.month < 12 THEN Date(dt.year, dt.month + 1, 1)
    ELSE Date(dt.year + 1, 1, 1)

\* the last day of the month before dt's
EndOfPrevMonth(dt) ==
    IF dt.month > 1 THEN Date(dt.year, dt.month - 1, DaysInMonth(dt.year, dt.month - 1))
    ELSE Date(dt.year - 1, 12, 31)

\* dt + timedelta(days=n), a month at a time
RECURSIVE AddDays(_, _)
AddDays(dt, n) ==
    IF dt.day + n > DaysInMonth(dt.year, dt.month)
    THEN AddDays(NextDate(Date(dt.year, dt.month, DaysInMonth(dt.year, dt.month))),
                 n - (DaysInMonth(dt.year, dt.month) - dt.day + 1))
    ELSE IF dt.day + n < 1 THEN AddDays(EndOfPrevMonth(dt), n + dt.day)
    ELSE Date(dt.year, dt.month, dt.day + n)

\* d.strftime("%Y-%m-%d"), for the four-digit years the model uses
Strftime(dt) ==
    FormatD(dt.year, 4) \o <<"-">> \o FormatD(dt.month, 2) \o <<"-">> \o FormatD(dt.day, 2)

-----------------------------------------------------------------------------
(* parse_date: datetime.strptime(s, "%Y-%m-%d").date()                      *)
(* strptime matches (\d\d\d\d)-(1[0-2]|0[1-9]|[1-9])-(3[01]|[12]\d|0[1-9]|  *)
(* [1-9]| [1-9]) at the start of s, fails if text remains after the match,  *)
(* and then builds the date, which fails for an impossible calendar date.   *)

NoDate == Date(0, 0, 0)

Failed == [ok |-> FALSE, date |-> NoDate]

NonZeroDigit(c) == IsDigit(c) /\ c # "0"

\* where the day field starts, or 0 if year and month do not match
MonthEnd(s) ==
    IF ~(/\ IsDigit(At(s, 1)) /\ IsDigit(At(s, 2)) /\ IsDigit(At(s, 3)) /\ IsDigit(At(s, 4))
         /\ At(s, 5) = "-") THEN 0
    ELSE IF At(s, 6) = "1" /\ At(s, 7) \in {"0", "1", "2"} /\ At(s, 8) = "-" THEN 9
    ELSE IF At(s, 6) = "0" /\ NonZeroDigit(At(s, 7)) /\ At(s, 8) = "-" THEN 9
    ELSE IF NonZeroDigit(At(s, 6)) /\ At(s, 7) = "-" THEN 8
    ELSE 0

\* where the match of the day field ends (first position after it), or 0
DayEnd(s, p) ==
    IF At(s, p) = "3" /\ At(s, p + 1) \in {"0", "1"} THEN p + 2
    ELSE IF At(s, p) \in {"1", "2"} /\ IsDigit(At(s, p + 1)) THEN p + 2
    ELSE IF At(s, p) = "0" /\ NonZeroDigit(At(s, p + 1)) THEN p + 2
    ELSE IF NonZeroDigit(At(s, p)) THEN p + 1
    ELSE IF At(s, p) = " " /\ NonZeroDigit(At(s, p + 1)) THEN p + 2
    ELSE 0

RECURSIVE IntOf(_)
\* int(text) of a run of digits, a leading space skipped
IntOf(s) ==
    IF s = <<>> THEN 0
    ELSE IF s[Len(s)] = " " THEN 0
    ELSE IntOf(SubSeq(s, 1, Len(s) - 1)) * 10 + DigitVal(s[Len(s)])

parse_date(s) ==
    LET p == MonthEnd(s)
        e == IF p = 0 THEN 0 ELSE DayEnd(s, p)
    IN  IF p = 0 \/ e = 0 \/ e # Len(s) + 1 THEN Failed
        ELSE LET y == IntOf(SubSeq(s, 1, 4))
                 m == IntOf(SubSeq(s, 6, p - 2))
                 d == IntOf(SubSeq(s, p, e - 1))
             IN  IF ValidDate(y, m, d) THEN [ok |-> TRUE, date |-> Date(y, m, d)]
                 ELSE Failed

-----------------------------------------------------------------------------
(* Status engine *)

\* What the helpers read from their surroundings (date.today(), st.session_state.data)
\* is an explicit parameter here: now, certs, suppliers.

\* (d - date.today()).days
days_until(d, now) == ToOrdinal(d) - ToOrdinal(now)

\* variant: the last day of the window already counts as VALID
status_from_expiry_exclusive(expiry, expiring_window_days, now) ==
    LET du == days_until(expiry, now)
    IN  IF du < 0 THEN "EXPIRED"
        ELSE IF du < expiring_window_days THEN "EXPIRING"
        ELSE "VALID"

status_from_expiry(expiry, expiring_window_days, now) ==
    LET du == days_until(expiry, now)
    IN  IF du < 0 THEN "EXPIRED"
        ELSE IF du <= expiring_window_days THEN "EXPIRING"
        ELSE "VALID"

\* pd.DataFrame(rows): the rows as a table, every cell computed once
DataFrame(rows) == rows \o <<>>

\* df.sort_values(by=["Days Until Expiry"], ascending=True, kind="stable"):
\* row i lands after the rows with a smaller key and the earlier rows with an equal key
sort_values(rows) ==
    LET before(i) == {j \in 1..Len(rows) :
                        \/ rows[j].Days_Until_Expiry < rows[i].Days_Until_Expiry
                        \/ /\ rows[j].Days_Until_Expiry = rows[i].Days_Until_Expiry
                           /\ j < i}
    IN  DataFrame([p \in 1..Len(rows) |->
            rows[CHOOSE i \in 1..Len(rows) : Cardinality(before(i)) = p - 1]])

\* variant: the Status column is the certificate's stored "status"
certificates_df_stored(certs, expiring_window_days, now) ==
    LET row(c) ==
            LET expiry == parse_date(c.expiry_date).date
            IN  [Certificate_ID    |-> c.id,
                 Supplier          |-> c.supplier,
                 Material          |-> c.material,
                 Cert_Body         |-> c.cert_body,
                 Country           |-> c.country,
                 Issue_Date        |-> c.issue_date,
                 Expiry_Date       |-> c.expiry_date,
                 Days_Until_Expiry |-> days_until(expiry, now),
                 Status            |-> c.status,
                 File              |-> c.file_name]
    IN  sort_values(DataFrame([i \in 1..Len(certs) |-> row(certs[i])]))

certificates_df(certs, expiring_window_days, now) ==
    LET row(c) ==
            LET expiry == parse_date(c.expiry_date).date
            IN  [Certificate_ID    |-> c.id,
                 Supplier          |-> c.supplier,
                 Material          |-> c.material,
                 Cert_Body         |-> c.cert_body,
                 Country           |-> c.country,
                 Issue_Date        |-> c.issue_date,
                 Expiry_Date       |-> c.expiry_date,
                 Days_Until_Expiry |-> days_until(expiry, now),
                 Status            |-> status_from_expiry(expiry, expiring_window_days, now),
                 File              |-> c.file_name]
    IN  sort_values(DataFrame([i \in 1..Len(certs) |-> row(certs[i])]))

(* Supplier aggregator *)

order(status) == CASE status = "EXPIRED" -> 3 [] status = "EXPIRING" -> 2 [] status = "VALID" -> 1

inv(n) == CASE n = 3 -> "EXPIRED" [] n = 2 -> "EXPIRING" [] n = 1 -> "VALID"

SeqMax(f) == CHOOSE x \in {f[i] : i \in 1..Len(f)} : \A i \in 1..Len(f) : f[i] <= x

SeqMin(f) == CHOOSE x \in {f[i] : i \in 1..Len(f)} : \A i \in 1..Len(f) : x <= f[i]

\* variant: the status of the certificate that expires last
supplier_status_df_best(suppliers, df_certs) ==
    LET sup(s) ==
            LET name == s.name
                sub == SelectSeq(df_certs, LAMBDA r : r.Supplier = name)
            IN  [Supplier |-> name,
                 Category |-> s.category,
                 Country  |-> s.country,
                 Compliance_Status |->
                    IF Len(sub) = 0 THEN "MISSING"
                    ELSE inv(SeqMin([i \in 1..Len(sub) |-> order(sub[i].Status)])),
                 Nearest_Expiry |->
                    IF Len(sub) = 0 THEN <<>>
                    ELSE <<SeqMin([i \in 1..Len(sub) |-> sub[i].Days_Until_Expiry])>>]
    IN  DataFrame([i \in 1..Len(suppliers) |-> sup(suppliers[i])])

\* "Nearest Expiry (days)" is None (here <<>>) or a number (here <<n>>)
supplier_status_df(suppliers, df_certs) ==
    LET sup(s) ==
            LET name == s.name
                sub == SelectSeq(df_certs, LAMBDA r : r.Supplier = name)
            IN  [Supplier |-> name,
                 Category |-> s.category,
                 Country  |-> s.country,
                 Compliance_Status |->
                    IF Len(sub) = 0 THEN "MISSING"
                    ELSE inv(SeqMax([i \in 1..Len(sub) |-> order(sub[i].Status)])),
                 Nearest_Expiry |->
                    IF Len(sub) = 0 THEN <<>>
                    ELSE <<SeqMin([i \in 1..Len(sub) |-> sub[i].Days_Until_Expiry])>>]
    IN  DataFrame([i \in 1..Len(suppliers) |-> sup(suppliers[i])])

CountStatus(df, status) == Cardinality({i \in 1..Len(df) : df[i].Status = status})

\* One script run down to the Alerts panel: the dataframes, the KPI row and the alerts.
Render(d, window, now) ==
    LET df_c == certificates_df(d.certificates, window, now)
    IN  [df_c     |-> df_c,
         df_s     |-> supplier_status_df(d.suppliers, df_c),
         total    |-> Len(df_c),
         valid    |-> CountStatus(df_c, "VALID"),
         expiring |-> CountStatus(df_c, "EXPIRING"),
         expired  |-> CountStatus(df_c, "EXPIRED"),
         urgent   |-> SelectSeq(df_c, LAMBDA r : r.Status \in {"EXPIRING", "EXPIRED"})]

NotRendered ==
    [df_c |-> <<>>, df_s |-> <<>>, total |-> 0, valid |-> 0,
     expiring |-> 0, expired |-> 0, urgent |-> <<>>]

-----------------------------------------------------------------------------
(* "OCR-like" intake simulation: guess_from_filename.  The file name and the supplier   *)
(* names it is compared with are tuples of one-character strings over ASCII letters,    *)
(* digits and punctuation.  The four digits of the certificate number come from         *)
(* hash(filename), which differs from process to process, and are not followed.         *)

UpperChars == <<"A", "B", "C", "D", "E", "F", "G", "H", "I", "J", "K", "L", "M",
                "N", "O", "P", "Q", "R", "S", "T", "U", "V", "W", "X", "Y", "Z">>

LowerChars == <<"a", "b", "c", "d", "e", "f", "g", "h", "i", "j", "k", "l", "m",
                "n", "o", "p", "q", "r", "s", "t", "u", "v", "w", "x", "y", "z">>

IsUpper(c) == \E i \in DOMAIN UpperChars : UpperChars[i] = c

IsLower(c) == \E i \in DOMAIN LowerChars : LowerChars[i] = c

\* [a-zA-Z0-9]
IsAlnum(c) == IsUpper(c) \/ IsLower(c) \/ IsDigit(c)

LowerChar(c) ==
    IF IsUpper(c) THEN LowerChars[CHOOSE i \in DOMAIN UpperChars : UpperChars[i] = c] ELSE c

\* s.lower()
Lower(s) == [i \in 1..Len(s) |-> LowerChar(s[i])] \o <<>>

\* s.replace(c, "")
Without(s, c) == SelectSeq(s, LAMBDA x : x # c)

\* s.replace(c, r), r one character
Replace(s, c, r) == [i \in 1..Len(s) |-> IF s[i] = c THEN r ELSE s[i]] \o <<>>

\* sub in s
In(sub, s) == \E i \in 0..(Len(s) - Len(sub)) : SubSeq(s, i + 1, i + Len(sub)) = sub

\* the least element of a non-empty set of numbers
Least(S) == CHOOSE x \in S : \A y \in S : x <= y

\* s.split(): the maximal runs of characters other than the blank
RECURSIVE Split(_)
Split(s) ==
    IF s = <<>> THEN <<>>
    ELSE IF Head(s) = " " THEN Split(Tail(s))
    ELSE LET blanks == {i \in 1..Len(s) : s[i] = " "}
             n == IF blanks = {} THEN Len(s) + 1 ELSE Least(blanks)
         IN  <<SubSeq(s, 1, n - 1)>> \o Split(SubSeq(s, n, Len(s)))

\* " ".join(tokens)
RECURSIVE Join(_)
Join(tokens) ==
    IF tokens = <<>> THEN <<>>
    ELSE IF Len(tokens) = 1 THEN tokens[1]
    ELSE tokens[1] \o <<" ">> \o Join(Tail(tokens))

\* lines 177-184: the first name that, lower-cased and without blanks, occurs in the
\* file name (lower-cased, without blanks); failing that the first name, if any
supplier_guess(lower, supplier_names) ==
    LET hits == {i \in 1..Len(supplier_names) :
                    In(Without(Lower(supplier_names[i]), " "), Without(lower, " "))}
        found == IF hits = {} THEN <<>> ELSE supplier_names[Least(hits)]
    IN  IF found = <<>> /\ Len(supplier_names) > 0 THEN supplier_names[1] ELSE found

\* the dict of tokens and countries, in its order of insertion
country_map ==
    << [k |-> <<"u", "a", "e">>,                     v |-> "UAE"],
       [k |-> <<"d", "u", "b", "a", "i">>,           v |-> "UAE"],
       [k |-> <<"a", "b", "u">>,                     v |-> "UAE"],
       [k |-> <<"k", "s", "a">>,                     v |-> "KSA"],
       [k |-> <<"s", "a", "u", "d", "i">>,           v |-> "KSA"],
       [k |-> <<"r", "i", "y", "a", "d", "h">>,      v |-> "KSA"],
       [k |-> <<"q", "a", "t", "a", "r">>,           v |-> "Qatar"],
       [k |-> <<"d", "o", "h", "a">>,                v |-> "Qatar"],
       [k |-> <<"o", "m", "a", "n">>,                v |-> "Oman"],
       [k |-> <<"k", "u", "w", "a", "i", "t">>,      v |-> "Kuwait"],
       [k |-> <<"b", "a", "h", "r", "a", "i", "n">>, v |-> "Bahrain"] >>

\* lines 187-197
country_guess(lower) ==
    LET hits == {i \in DOMAIN country_map : In(country_map[i].k, lower)}
    IN  IF hits = {} THEN "UAE" ELSE country_map[Least(hits)].v

\* [-_/]
IsSep(c) == c \in {"-", "_", "/"}

\* (20\d{2}) at position i
YearAt(s, i) ==
    At(s, i) = "2" /\ At(s, i + 1) = "0" /\ IsDigit(At(s, i + 2)) /\ IsDigit(At(s, i + 3))

\* (0[1-9]|1[0-2]) at position i
MonthAt(s, i) ==
    \/ At(s, i) = "0" /\ NonZeroDigit(At(s, i + 1))
    \/ At(s, i) = "1" /\ At(s, i + 1) \in {"0", "1", "2"}

\* (0[1-9]|[12]\d|3[01]) at position i
DayAt(s, i) ==
    \/ At(s, i) = "0" /\ NonZeroDigit(At(s, i + 1))
    \/ At(s, i) \in {"1", "2"} /\ IsDigit(At(s, i + 1))
    \/ At(s, i) = "3" /\ At(s, i + 1) \in {"0", "1"}

\* re.search of the year-first pattern: where the leftmost match starts, 0 for None
m1(filename) ==
    LET hits == {i \in 1..Len(filename) :
                    /\ YearAt(filename, i)
                    /\ IsSep(At(filename, i + 4))
                    /\ MonthAt(filename, i + 5)
                    /\ IsSep(At(filename, i + 7))
                    /\ DayAt(filename, i + 8)}
    IN  IF hits = {} THEN 0 ELSE Least(hits)

\* re.search of the day-first pattern: where the leftmost match starts, 0 for None
m2(filename) ==
    LET hits == {i \in 1..Len(filename) :
                    /\ DayAt(filename, i)
                    /\ IsSep(At(filename, i + 2))
                    /\ MonthAt(filename, i + 3)
                    /\ IsSep(At(filename, i + 5))
                    /\ YearAt(filename, i + 6)}
    IN  IF hits = {} THEN 0 ELSE Least(hits)

\* variant: date(y, mo, d) without the check of the day against the month
TryDate_unchecked(y, mo, d) == [ok |-> TRUE, date |-> Date(y, mo, d)]

\* try: date(y, mo, d)  except ValueError: pass
TryDate(y, mo, d) ==
    IF ValidDate(y, mo, d) THEN [ok |-> TRUE, date |-> Date(y, mo, d)] ELSE Failed

\* lines 199-216
expiry_guess(filename, now) ==
    LET i1 == m1(filename)
        d1 == TryDate(IntOf(SubSeq(filename, i1, i1 + 3)),
                      IntOf(SubSeq(filename, i1 + 5, i1 + 6)),
                      IntOf(SubSeq(filename, i1 + 8, i1 + 9)))
        after1 == IF i1 # 0 /\ d1.ok THEN d1.date ELSE AddDays(now, 365)
        i2 == m2(filename)
        d2 == TryDate(IntOf(SubSeq(filename, i2 + 6, i2 + 9)),
                      IntOf(SubSeq(filename, i2 + 3, i2 + 4)),
                      IntOf(SubSeq(filename, i2, i2 + 1)))
    IN  IF i2 # 0 /\ d2.ok THEN d2.date ELSE after1

\* re.sub(r"\.[a-zA-Z0-9]+$", "", filename)
StripExtension(s) ==
    LET dots == {i \in 1..(Len(s) - 1) :
                    s[i] = "." /\ \A j \in (i + 1)..Len(s) : IsAlnum(s[j])}
    IN  IF dots = {} THEN s ELSE SubSeq(s, 1, Least(dots) - 1)

\* lines 219-221 and the [:60] of line 232
material_guess(filename) ==
    LET base == Replace(Replace(StripExtension(filename), "_", " "), "-", " ")
        tokens == SelectSeq(Split(base), LAMBDA t : Len(t) > 2)
        text == IF tokens = <<>>
                THEN <<"H", "a", "l", "a", "l", " ",
                       "C", "e", "r", "t", "i", "f", "i", "c", "a", "t", "e">>
                ELSE Join(SubSeq(tokens, 1, IF Len(tokens) < 4 THEN Len(tokens) ELSE 4))
    IN  SubSeq(text, 1, IF Len(text) < 60 THEN Len(text) ELSE 60)

guess_from_filename(filename, supplier_names, now) ==
    LET lower == Lower(filename)
    IN  [Supplier       |-> supplier_guess(lower, supplier_names),
         Country        |-> country_guess(lower),
         Material       |-> material_guess(filename),
         Cert_Body      |-> "Halal Authority (extracted)",
         Certificate_No |-> <<"H", "A", "-">> \o Decimal(now.year) \o <<"-">>,
         Expiry_Date    |-> expiry_guess(filename, now)]

\* the uploader is empty
NoFile == <<>>

\* no file name has been looked at
NotGuessed ==
    [Supplier |-> <<>>, Country |-> "", Material |-> <<>>, Cert_Body |-> "",
     Certificate_No |-> <<>>, Expiry_Date |-> NoDate]

-----------------------------------------------------------------------------
(* Seed data and the inputs the model explores *)

\* the date.today() of the first script run
Today0 == Date(2026, 2, 28)

\* load_seed(): data/demo_seed.json, read afresh by every script run
Seed ==
    [suppliers |->
        << [name |-> "Al Noor Foods", category |-> "Meat", country |-> "UAE"],
           [name |-> "Gulf Spices", category |-> "Spices", country |-> "KSA"] >>,
     certificates |->
        << [id |-> <<"C", "E", "R", "T", "-", "0", "0", "1">>,
            supplier |-> "Al Noor Foods", material |-> "Beef", cert_body |-> "ESMA",
            country |-> "UAE",
            issue_date |-> <<"2", "0", "2", "5", "-", "0", "3", "-", "3", "0">>,
            expiry_date |-> <<"2", "0", "2", "6", "-", "0", "3", "-", "3", "0">>,
            status |-> "VALID", file_name |-> "alnoor_beef.pdf"],
           [id |-> <<"C", "E", "R", "T", "-", "0", "0", "2">>,
            supplier |-> "Al Noor Foods", material |-> "Lamb", cert_body |-> "ESMA",
            country |-> "UAE",
            issue_date |-> <<"2", "0", "2", "5", "-", "0", "2", "-", "2", "6">>,
            expiry_date |-> <<"2", "0", "2", "6", "-", "0", "2", "-", "2", "6">>,
            status |-> "EXPIRING", file_name |-> "alnoor_lamb.pdf"] >>]

\* positions of the sidebar slider that the model visits
WindowChoices == {WindowMin, WindowDefault}

\* what the supplier leaves in the "Supplier" and "Expiry Date (YYYY-MM-DD)" rows of the form
FormInputs ==
    { <<"Gulf Spices",      <<"2", "0", "2", "6", "-", "0", "2", "-", "2", "7">> >>,  \* yesterday
      <<"Unlisted Trading", <<"2", "0", "2", "6", "-", "0", "3", "-", "3", "1">> >>,  \* in 31 days
      <<"Unlisted Trading", <<"2", "0", "2", "6", "-", "3", "-", "3", "1">> >>,       \* no leading zero
      <<"Gulf Spices",      <<"2", "0", "2", "6", "-", "0", "2", "-", "3", "0">> >>,  \* 30 February
      <<"Gulf Spices",      <<"2", "7", "-", "0", "2", "-", "2", "0", "2", "6">> >> } \* day first

\* options of the "Reason" and "Channel" select boxes that the model visits
ReasonInputs == {"Certificate expired"}

ChannelInputs == {"WhatsApp"}

-----------------------------------------------------------------------------
(* Session state after the first script run: ensure_state(seed), widgets at their defaults *)

ensure_state(seed) ==
    /\ data = seed
    /\ approval_log = <<>>
    /\ reminder_log = <<>>
    /\ inbox_submissions = <<>>

Init ==
    /\ ensure_state(Seed)
    /\ expiring_window = WindowDefault
    /\ today = Today0
    /\ last_submit = [field |-> <<>>, reported |-> "none"]
    /\ submits = 0
    /\ shown = NotRendered
    /\ intake_file = NoFile
    /\ guessed = NotGuessed

-----------------------------------------------------------------------------
(* Log helpers *)

\* variant: list.append(x)
InsertFront_append(list, x) == list \o <<x>>

\* list.insert(0, x)
InsertFront(list, x) == <<x>> \o list

\* variant: list.pop(), the list without its last element
PopFront_last(list) == SubSeq(list, 1, Len(list) - 1)

\* list.pop(0): the list without its first element
PopFront(list) == Tail(list)

\* datetime.utcnow().strftime("%Y-%m-%d %H:%M UTC")
UtcNow == "utcnow"

add_approval(action, supplier, material, certificate_id, note) ==
    approval_log' = InsertFront(approval_log,
        [Time |-> UtcNow, Action |-> action, Supplier |-> supplier, Material |-> material,
         Certificate_ID |-> certificate_id, Note |-> note])

add_reminder(supplier, reason, channel) ==
    reminder_log' = InsertFront(reminder_log,
        [Time |-> UtcNow, Supplier |-> supplier, Reason |-> reason, Channel |-> channel])

\* variant: f"CERT-{n}"
CertId_unpadded(n) == <<"C", "E", "R", "T", "-">> \o Decimal(n)

\* variant: numbered from the count of certificates, not from the count plus one
CertId_count(n) == <<"C", "E", "R", "T", "-">> \o FormatD(n - 1, 3)

\* f"CERT-{n:03d}"
CertId(n) == <<"C", "E", "R", "T", "-">> \o FormatD(n, 3)

\* variant: no certificate id is logged for a rejection
PendingId_blank == <<>>

\* the certificate_id logged for a rejection
PendingId == <<"(", "p", "e", "n", "d", "i", "n", "g", ")">>

-----------------------------------------------------------------------------
(* Sidebar *)

SetWindow(w) ==
    /\ w # expiring_window
    /\ expiring_window' = w
    /\ UNCHANGED <<data, approval_log, reminder_log, inbox_submissions,
                   today, last_submit, submits>>
    /\ UNCHANGED shown
    /\ UNCHANGED intake

\* variant: "inbox_submissions" is missing from the list of keys to delete
Reset_keeps_inbox ==
    /\ data' = Seed
    /\ approval_log' = <<>>
    /\ reminder_log' = <<>>
    /\ submits' = Len(inbox_submissions)
    /\ UNCHANGED <<inbox_submissions, expiring_window, today, last_submit>>
    /\ UNCHANGED shown
    /\ UNCHANGED intake

\* "Reset demo data": the four keys are deleted, the rerun's ensure_state refills them
Reset ==
    /\ data' = Seed
    /\ approval_log' = <<>>
    /\ reminder_log' = <<>>
    /\ inbox_submissions' = <<>>
    /\ submits' = 0
    /\ UNCHANGED <<expiring_window, today, last_submit>>
    /\ UNCHANGED shown
    /\ UNCHANGED intake

-----------------------------------------------------------------------------
(* Core mode, tab 1: supplier intake *)

\* the submission dict; Seq is history (the submit's number since the last reset)
Submission(supplier, expiry_parsed) ==
    [Submitted      |-> UtcNow,
     Supplier       |-> supplier,
     Country        |-> "UAE",
     Material       |-> "Halal Certificate",
     Cert_Body      |-> "Halal Authority (extracted)",
     Certificate_No |-> "HA-2026-0001",
     Expiry_Date    |-> Strftime(expiry_parsed),
     File           |-> "(demo) supplier_certificate.pdf",
     State          |-> "PENDING",
     Note           |-> "",
     Seq            |-> submits + 1]

Submit(supplier, field) ==
    /\ UNCHANGED shown
    /\ UNCHANGED intake
    /\ UNCHANGED <<data, approval_log, reminder_log, expiring_window, today>>
    /\ LET parsed == parse_date(field)
       IN  IF ~parsed.ok
           THEN /\ last_submit' = [field |-> field, reported |-> "error"]
                /\ UNCHANGED <<inbox_submissions, submits>>
           ELSE /\ submits < MaxSubmits
                /\ inbox_submissions' =
                       InsertFront(inbox_submissions, Submission(supplier, parsed.date))
                /\ submits' = submits + 1
                /\ last_submit' = [field |-> field, reported |-> "success"]

Approve ==
    /\ Len(inbox_submissions) # 0
    /\ LET first == inbox_submissions[1]
           new_id == CertId(Len(data.certificates) + 1)
       IN  /\ data' = [data EXCEPT !.certificates = Append(@,
                         [id          |-> new_id,
                          supplier    |-> first.Supplier,
                          material    |-> first.Material,
                          cert_body   |-> first.Cert_Body,
                          country     |-> first.Country,
                          issue_date  |-> Strftime(today),
                          expiry_date |-> first.Expiry_Date,
                          status      |-> "VALID",
                          file_name   |-> first.File])]
           /\ add_approval("APPROVED", first.Supplier, first.Material, new_id,
                           <<"Approved from supplier intake. CertNo=", first.Certificate_No>>)
    /\ inbox_submissions' = PopFront(inbox_submissions)
    /\ UNCHANGED <<reminder_log, expiring_window, today, last_submit, submits>>
    /\ UNCHANGED shown
    /\ UNCHANGED intake

\* variant: the rejected submission is logged but stays in the inbox
Reject_keeps_submission ==
    /\ Len(inbox_submissions) # 0
    /\ LET first == inbox_submissions[1]
       IN  add_approval("REJECTED", first.Supplier, first.Material, PendingId,
                        <<"Rejected (demo)">>)
    /\ UNCHANGED <<data, inbox_submissions, reminder_log, expiring_window, today,
                   last_submit, submits>>
    /\ UNCHANGED shown
    /\ UNCHANGED intake

Reject ==
    /\ Len(inbox_submissions) # 0
    /\ LET first == inbox_submissions[1]
       IN  add_approval("REJECTED", first.Supplier, first.Material, PendingId,
                        <<"Rejected (demo)">>)
    /\ inbox_submissions' = PopFront(inbox_submissions)
    /\ UNCHANGED <<data, reminder_log, expiring_window, today, last_submit, submits>>
    /\ UNCHANGED shown
    /\ UNCHANGED intake

-----------------------------------------------------------------------------
(* Core mode, tab 3: reminder centre *)

SendReminder(chase_supplier, reason, channel) ==
    /\ Len(reminder_log) < MaxReminders
    /\ \E i \in 1..Len(data.suppliers) : data.suppliers[i].name = chase_supplier
    /\ add_reminder(chase_supplier, reason, channel)
    /\ UNCHANGED shown
    /\ UNCHANGED intake
    /\ UNCHANGED <<data, approval_log, inbox_submissions, expiring_window, today,
                   last_submit, submits>>

-----------------------------------------------------------------------------
(* Environment *)

\* midnight passes: date.today() moves on
NextDay ==
    /\ ToOrdinal(today) - ToOrdinal(Today0) < MaxDays
    /\ today' = NextDate(today)
    /\ UNCHANGED <<data, approval_log, reminder_log, inbox_submissions,
                   expiring_window, last_submit, submits, shown>>
    /\ UNCHANGED intake

Next ==
    \/ \E w \in WindowChoices : SetWindow(w)
    \/ Reset
    \/ \E in \in FormInputs : Submit(in[1], in[2])
    \/ Approve
    \/ Reject
    \/ \E s \in {"Al Noor Foods", "Gulf Spices"}, r \in ReasonInputs, c \in ChannelInputs :
          SendReminder(s, r, c)
    \/ NextDay

Spec == Init /\ [][Next]_vars

-----------------------------------------------------------------------------
(* The status helpers on their own: one script run over a session state that is drawn   *)
(* from bounded sets (every slider position, expiry dates around today and around the   *)
(* end of the window, certificate lists with known, unknown and re-cased supplier names) *)

\* the expiry dates the helpers are probed with, as text, by their distance from Today0
ProbeDates == [k \in (0 - Margin)..(WindowMax + Margin) |-> Strftime(AddDays(Today0, k))]

ProbeCert(supplier, k) ==
    [id |-> CertId(1), supplier |-> supplier, material |-> "Beef", cert_body |-> "ESMA",
     country |-> "UAE", issue_date |-> Strftime(Today0), expiry_date |-> ProbeDates[k],
     status |-> "VALID", file_name |-> "probe.pdf"]

ProbeSuppliers == {"Al Noor Foods", "Gulf Spices", "al noor foods", "Unlisted Trading"}

\* yesterday, today, the last day of the default window, the day after it
ProbeOffsets == {0 - 1, 0, WindowDefault, WindowDefault + 1}

ProbeCerts == {ProbeCert(s, k) : s \in ProbeSuppliers, k \in ProbeOffsets}

ProbeLists == UNION {[1..n -> ProbeCerts] : n \in 1..MaxRows}

InitHelpers ==
    /\ \/ /\ expiring_window \in WindowMin..WindowMax
          /\ \E k \in DOMAIN ProbeDates :
                data = [Seed EXCEPT !.certificates = <<ProbeCert("Al Noor Foods", k)>>]
       \/ /\ expiring_window \in WindowChoices
          /\ \E l \in ProbeLists : data = [Seed EXCEPT !.certificates = l]
    /\ today \in {Today0, NextDate(Today0)}
    /\ approval_log = <<>>
    /\ reminder_log = <<>>
    /\ inbox_submissions = <<>>
    /\ last_submit = [field |-> <<>>, reported |-> "none"]
    /\ submits = 0
    /\ shown = NotRendered
    /\ intake_file = NoFile
    /\ guessed = NotGuessed

\* lines 349-362 and 421-423 of one script run
ScriptRun ==
    /\ shown = NotRendered
    /\ shown' = Render(data, expiring_window, today)
    /\ UNCHANGED <<data, approval_log, reminder_log, inbox_submissions,
                   expiring_window, today, last_submit, submits>>
    /\ UNCHANGED intake

SpecHelpers == InitHelpers /\ [][ScriptRun]_vars

-----------------------------------------------------------------------------
(* The filename guesser on its own: the intake tab of a session whose supplier list and *)
(* date are drawn from bounded sets, and the files a supplier puts in the uploader      *)

\* "ACME Foods"
NameAcme ==
    <<"A", "C", "M", "E", " ", "F", "o", "o", "d", "s">>

\* "Al Noor Foods"
NameAlNoor ==
    <<"A", "l", " ", "N", "o", "o", "r", " ", "F", "o", "o", "d", "s">>

\* "Gulf Spices"
NameGulf ==
    <<"G", "u", "l", "f", " ", "S", "p", "i", "c", "e", "s">>

\* "ACME_Foods_2026-01-31_cert.pdf"
FileAcme ==
    <<"A", "C", "M", "E", "_", "F", "o", "o", "d", "s", "_", "2", "0", "2", "6", "-",
      "0", "1", "-", "3", "1", "_", "c", "e", "r", "t", ".", "p", "d", "f">>

\* "acme foods 31-01-2026.pdf"
FileAcmeBlank ==
    <<"a", "c", "m", "e", " ", "f", "o", "o", "d", "s", " ", "3", "1", "-", "0", "1",
      "-", "2", "0", "2", "6", ".", "p", "d", "f">>

\* "a_31-01-2026_2026-02-01.pdf"
FileBothValid ==
    <<"a", "_", "3", "1", "-", "0", "1", "-", "2", "0", "2", "6", "_", "2", "0", "2",
      "6", "-", "0", "2", "-", "0", "1", ".", "p", "d", "f">>

\* "2026-02-31_x.pdf"
FileFebruary31 ==
    <<"2", "0", "2", "6", "-", "0", "2", "-", "3", "1", "_", "x", ".", "p", "d", "f">>

\* "31-04-2026_2026-05-01"
FileDayFirstInvalid ==
    <<"3", "1", "-", "0", "4", "-", "2", "0", "2", "6", "_", "2", "0", "2", "6", "-",
      "0", "5", "-", "0", "1">>

\* "2026-01-31-01-2026"
FileOverlap ==
    <<"2", "0", "2", "6", "-", "0", "1", "-", "3", "1", "-", "0", "1", "-", "2", "0",
      "2", "6">>

\* "scan.pdf"
FileNoDate ==
    <<"s", "c", "a", "n", ".", "p", "d", "f">>

\* "31/02/2026_2026_04_31"
FileBothInvalid ==
    <<"3", "1", "/", "0", "2", "/", "2", "0", "2", "6", "_", "2", "0", "2", "6", "_",
      "0", "4", "_", "3", "1">>

\* "gulfspices_ksa_2026/12/01.png"
FileKsa ==
    <<"g", "u", "l", "f", "s", "p", "i", "c", "e", "s", "_", "k", "s", "a", "_", "2",
      "0", "2", "6", "/", "1", "2", "/", "0", "1", ".", "p", "n", "g">>

\* "2026-02-31_2026-03-01.pdf"
FileSecondValid ==
    <<"2", "0", "2", "6", "-", "0", "2", "-", "3", "1", "_", "2", "0", "2", "6", "-",
      "0", "3", "-", "0", "1", ".", "p", "d", "f">>

\* "Dubai_Oman.jpeg"
FileDubaiOman ==
    <<"D", "u", "b", "a", "i", "_", "O", "m", "a", "n", ".", "j", "p", "e", "g">>

GuessNames == {NameAcme, NameAlNoor, NameGulf}

GuessFiles ==
    {FileAcme, FileAcmeBlank, FileBothValid, FileFebruary31,
     FileDayFirstInvalid, FileOverlap, FileNoDate, FileBothInvalid,
     FileKsa, FileSecondValid, FileDubaiOman}

\* supplier lists of at most MaxNames names, no name twice
GuessLists ==
    {l \in UNION {[1..n -> GuessNames] : n \in 0..MaxNames} :
        \A i, j \in DOMAIN l : i # j => l[i] # l[j]}

\* a day whose year ahead ends in February, and one whose year ahead holds a 29 February
GuessDays == {Today0, Date(2027, 3, 1)}

SupplierRow(name) == [name |-> name, category |-> "Meat", country |-> "UAE"]

InitGuess ==
    /\ \E l \in GuessLists :
          data = [suppliers |-> [i \in DOMAIN l |-> SupplierRow(l[i])] \o <<>>,
                  certificates |-> <<>>]
    /\ today \in GuessDays
    /\ approval_log = <<>>
    /\ reminder_log = <<>>
    /\ inbox_submissions = <<>>
    /\ expiring_window = WindowDefault
    /\ last_submit = [field |-> <<>>, reported |-> "none"]
    /\ submits = 0
    /\ shown = NotRendered
    /\ intake_file = NoFile
    /\ guessed = NotGuessed

\* line 456
supplier_names == [i \in DOMAIN data.suppliers |-> data.suppliers[i].name] \o <<>>

\* a file is put in the uploader: the script run pre-fills the form (lines 462-474)
Upload(file) ==
    /\ file # intake_file
    /\ intake_file' = file
    /\ guessed' = guess_from_filename(file, supplier_names, today)
    /\ UNCHANGED <<data, approval_log, reminder_log, inbox_submissions,
                   expiring_window, today, last_submit, submits, shown>>

NextGuess == \E file \in GuessFiles : Upload(file)

SpecGuess == InitGuess /\ [][NextGuess]_vars

-----------------------------------------------------------------------------
(* What the properties compare the program with.  The distance in days between an     *)
(* expiry date and today is read off the table of probe dates, which is built by      *)
(* counting days forward from Today0, not by the subtraction the program performs.    *)

DayOffset(text) == CHOOSE k \in DOMAIN ProbeDates : ProbeDates[k] = text

TodayOffset == CHOOSE j \in 0..(MaxDays + 1) : AddDays(Today0, j) = today

ExpectedDays(c) == DayOffset(c.expiry_date) - TodayOffset

StatusOfDays(d, w) ==
    CASE d < 0 -> "EXPIRED"
      [] d >= 0 /\ d <= w -> "EXPIRING"
      [] d > w -> "VALID"

WorstOf(S) ==
    IF "EXPIRED" \in S THEN "EXPIRED" ELSE IF "EXPIRING" \in S THEN "EXPIRING" ELSE "VALID"

-----------------------------------------------------------------------------
(* Properties of the status helpers, checked under SpecHelpers *)

\* C8: for every expiry date and every window in 7..90, with d = expiry - today in whole
\* days, status_from_expiry returns EXPIRED iff d < 0, EXPIRING iff 0 <= d <= window and
\* VALID iff d > window; exactly one of the three is returned.
C8_StatusBoundaries ==
    (shown # NotRendered /\ Len(data.certificates) = 1) =>
        LET d == ExpectedDays(data.certificates[1])
            w == expiring_window
            r == shown.df_c[1]
        IN  /\ w \in WindowMin..WindowMax
            /\ r.Days_Until_Expiry = d
            /\ r.Status \in {"EXPIRED", "EXPIRING", "VALID"}
            /\ (r.Status = "EXPIRED") <=> (d < 0)
            /\ (r.Status = "EXPIRING") <=> (0 <= d /\ d <= w)
            /\ (r.Status = "VALID") <=> (d > w)

\* a certificate that expires on the last day of the widest window has been reported EXPIRING
C8_Witness ==
    /\ shown # NotRendered
    /\ Len(data.certificates) = 1
    /\ expiring_window = WindowMax
    /\ ExpectedDays(data.certificates[1]) = WindowMax
    /\ shown.df_c[1].Status = "EXPIRING"

-----------------------------------------------------------------------------
(* Properties of the session, checked under Spec *)

\* "CERT-" and n in three digits, digit by digit (n < 1000)
ExpectedCertId(n) ==
    <<"C", "E", "R", "T", "-",
      DigitChars[(n \div 100) + 1], DigitChars[((n \div 10) % 10) + 1], DigitChars[(n % 10) + 1]>>

\* new is old with exactly one entry put in front of it
OneInFront(old, new) ==
    /\ Len(new) = Len(old) + 1
    /\ \A i \in 1..Len(old) : new[i + 1] = old[i]

\* new is old without its first entry
HeadRemoved(old, new) ==
    /\ Len(new) = Len(old) - 1
    /\ \A i \in 1..Len(new) : new[i] = old[i + 1]

\* C1: Approve, taken with a non-empty pending queue, is one step that appends exactly one
\* certificate with id CERT-{oldCount+1:03d} and the head submission's fields, removes the
\* head submission from the queue and puts one APPROVED entry with that id at index 0 of the
\* approval log.
C1_ApproveEffect ==
    [][Approve =>
        LET old == data.certificates
            n == Len(old)
            head == inbox_submissions[1]
            new == data'.certificates[n + 1]
        IN  /\ Len(inbox_submissions) > 0
            /\ Len(data'.certificates) = n + 1
            /\ \A i \in 1..n : data'.certificates[i] = old[i]
            /\ data'.suppliers = data.suppliers
            /\ new.id = ExpectedCertId(n + 1)
            /\ new.supplier = head.Supplier
            /\ new.material = head.Material
            /\ new.cert_body = head.Cert_Body
            /\ new.country = head.Country
            /\ new.expiry_date = head.Expiry_Date
            /\ new.file_name = head.File
            /\ HeadRemoved(inbox_submissions, inbox_submissions')
            /\ OneInFront(approval_log, approval_log')
            /\ approval_log'[1].Action = "APPROVED"
            /\ approval_log'[1].Certificate_ID = new.id
            /\ reminder_log' = reminder_log
    ]_vars

\* the newest of two pending submissions has been approved on top of an earlier decision
C1_Witness ==
    /\ Len(approval_log) = 2
    /\ approval_log[1].Action = "APPROVED"
    /\ Len(data.certificates) > Len(Seed.certificates)
    /\ data.certificates[Len(data.certificates)].id = approval_log[1].Certificate_ID
    /\ submits = 2
    /\ inbox_submissions = <<>>

\* C2: Reject, taken with a non-empty pending queue, leaves the certificate list and the
\* reminder log unchanged, removes exactly the head submission and puts one REJECTED entry
\* with the submission's supplier and material and certificate_id "(pending)" at index 0 of
\* the approval log.
C2_RejectEffect ==
    [][Reject =>
        LET head == inbox_submissions[1]
        IN  /\ Len(inbox_submissions) > 0
            /\ data' = data
            /\ reminder_log' = reminder_log
            /\ HeadRemoved(inbox_submissions, inbox_submissions')
            /\ OneInFront(approval_log, approval_log')
            /\ approval_log'[1].Action = "REJECTED"
            /\ approval_log'[1].Supplier = head.Supplier
            /\ approval_log'[1].Material = head.Material
            /\ approval_log'[1].Certificate_ID = <<"(", "p", "e", "n", "d", "i", "n", "g", ")">>
    ]_vars

\* the newer of two pending submissions has been rejected, with a reminder already logged
C2_Witness ==
    /\ Len(approval_log) = 1
    /\ approval_log[1].Action = "REJECTED"
    /\ data = Seed
    /\ Len(inbox_submissions) = 1
    /\ submits = 2
    /\ reminder_log # <<>>

\* C3: the pending queue is newest first, and a decision (a step that adds an entry to the
\* approval log) consumes the submission submitted last among those pending, leaving the
\* older ones pending in their order.
C3_NewestFirst ==
    [][ /\ \A i, j \in 1..Len(inbox_submissions') :
              i < j => inbox_submissions'[i].Seq > inbox_submissions'[j].Seq
        /\ (Len(approval_log') = Len(approval_log) + 1) =>
              \E k \in 1..Len(inbox_submissions) :
                  /\ \A j \in 1..Len(inbox_submissions) :
                        inbox_submissions[j].Seq <= inbox_submissions[k].Seq
                  /\ approval_log'[1].Supplier = inbox_submissions[k].Supplier
                  /\ {inbox_submissions'[j] : j \in 1..Len(inbox_submissions')} =
                        {inbox_submissions[j] : j \in 1..Len(inbox_submissions)}
                            \ {inbox_submissions[k]}
    ]_vars

\* the second of two submissions has been decided while the first is still pending
C3_Witness ==
    /\ submits = 2
    /\ Len(approval_log) = 1
    /\ Len(inbox_submissions) = 1
    /\ inbox_submissions[1].Seq = 1

\* C4: in every reachable state the i-th certificate has id CERT-{i:03d}, so no two
\* certificates share an id.
C4_UniqueIds ==
    LET certs == data.certificates
    IN  /\ \A i \in 1..Len(certs) : certs[i].id = ExpectedCertId(i)
        /\ \A i, j \in 1..Len(certs) : certs[i].id = certs[j].id => i = j

\* two certificates have been added to the seed's
C4_Witness == Len(data.certificates) = Len(Seed.certificates) + 2

\* the page a script run shows for the current session state
Page == Render(data, expiring_window, today)

\* C5: the status shown for each certificate (vault rows, KPI counts, alerts, supplier
\* aggregate) is the status of its expiry date under today's date and the current window,
\* whatever its stored "status" says; the stored certificates stay as they were created
\* (the seed's as in the seed, approved ones with "VALID").
C5_StatusRecomputed ==
    LET certs == data.certificates
        n0 == Len(Seed.certificates)
        page == Page
        \* (concatenation makes the list a tuple, so that each entry is computed once)
        want == [j \in 1..Len(certs) |->
                    StatusOfDays(ExpectedDays(certs[j]), expiring_window)] \o <<>>
        count == [st \in {"VALID", "EXPIRING", "EXPIRED"} |->
                    Cardinality({j \in 1..Len(certs) : want[j] = st})]
    IN  /\ Len(page.df_c) = Len(certs)
        /\ \A i \in 1..Len(page.df_c) :
              \E j \in 1..Len(certs) :
                  /\ page.df_c[i].Certificate_ID = certs[j].id
                  /\ page.df_c[i].Status = want[j]
        /\ page.total = Len(certs)
        /\ page.valid = count["VALID"]
        /\ page.expiring = count["EXPIRING"]
        /\ page.expired = count["EXPIRED"]
        /\ Len(page.urgent) = count["EXPIRING"] + count["EXPIRED"]
        /\ \A i \in 1..Len(page.urgent) :
              \E j \in 1..Len(certs) :
                  /\ page.urgent[i].Certificate_ID = certs[j].id
                  /\ page.urgent[i].Status = want[j]
        /\ \A i \in 1..Len(data.suppliers) :
              LET mine == {j \in 1..Len(certs) : certs[j].supplier = data.suppliers[i].name}
              IN  page.df_s[i].Compliance_Status =
                      IF mine = {} THEN "MISSING" ELSE WorstOf({want[j] : j \in mine})
        /\ \A j \in 1..Len(certs) :
              IF j <= n0 THEN certs[j] = Seed.certificates[j] ELSE certs[j].status = "VALID"

\* an approved certificate stored as "VALID" is shown EXPIRED, and under the narrowest
\* window a seed certificate stored as "VALID" that the default window flags is shown VALID
C5_Witness ==
    LET page == Page
    IN  /\ expiring_window = WindowMin
        /\ Len(data.certificates) > Len(Seed.certificates)
        /\ data.certificates[Len(Seed.certificates) + 1].status = "VALID"
        /\ \E i \in 1..Len(page.df_c) :
              /\ page.df_c[i].Certificate_ID = ExpectedCertId(Len(Seed.certificates) + 1)
              /\ page.df_c[i].Status = "EXPIRED"
        /\ \E i \in 1..Len(page.df_c) :
              /\ page.df_c[i].Certificate_ID = ExpectedCertId(1)
              /\ page.df_c[i].Status = "VALID"
              /\ StatusOfDays(page.df_c[i].Days_Until_Expiry, WindowDefault) = "EXPIRING"

\* text of the exact form YYYY-MM-DD that names a calendar date
StrictDate(f) ==
    /\ Len(f) = 10
    /\ \A i \in {1, 2, 3, 4, 6, 7, 9, 10} : IsDigit(f[i])
    /\ f[5] = "-" /\ f[8] = "-"
    /\ LET y == 1000 * DigitVal(f[1]) + 100 * DigitVal(f[2]) + 10 * DigitVal(f[3]) + DigitVal(f[4])
           m == 10 * DigitVal(f[6]) + DigitVal(f[7])
           d == 10 * DigitVal(f[9]) + DigitVal(f[10])
       IN  /\ y >= 1
           /\ m \in 1..12
           /\ d >= 1
           /\ d <= (IF m = 2 THEN (IF IsLeap(y) THEN 29 ELSE 28)
                    ELSE IF m \in {4, 6, 9, 11} THEN 30 ELSE 31)

\* C6: a submit whose expiry field is not a valid YYYY-MM-DD date reports an error and
\* leaves the pending queue, the certificate list and both logs as they were; a submit with
\* a valid date puts exactly one PENDING submission at index 0 of the pending queue and
\* changes nothing else.
C6_SubmitValidates ==
    [][\A in \in FormInputs :
        Submit(in[1], in[2]) =>
            /\ data' = data
            /\ approval_log' = approval_log
            /\ reminder_log' = reminder_log
            /\ IF StrictDate(in[2])
               THEN /\ OneInFront(inbox_submissions, inbox_submissions')
                    /\ inbox_submissions'[1].State = "PENDING"
               ELSE /\ inbox_submissions' = inbox_submissions
                    /\ last_submit'.reported = "error"
    ]_vars

\* C7: Reset, taken in any reachable state, yields the initial session state: the seed's
\* suppliers and certificates, and an empty pending queue, approval log and reminder log;
\* the next approval is numbered after the seed's certificates again.
C7_ResetRestoresSeed ==
    [][Reset =>
        /\ data'.suppliers = Seed.suppliers
        /\ data'.certificates = Seed.certificates
        /\ inbox_submissions' = <<>>
        /\ approval_log' = <<>>
        /\ reminder_log' = <<>>
        /\ CertId(Len(data'.certificates) + 1) = ExpectedCertId(Len(Seed.certificates) + 1)
    ]_vars

\* the session is back at the seed although a submission has been accepted earlier
C7_Witness ==
    /\ last_submit.reported = "success"
    /\ submits = 0
    /\ data = Seed
    /\ inbox_submissions = <<>>
    /\ approval_log = <<>>
    /\ reminder_log = <<>>

\* C10: both logs are append-only and newest first: a step other than Reset leaves a log as
\* it is or puts exactly one entry in front of it, the earlier entries unchanged and in
\* order; a step that logs a reminder changes neither the certificate list, the pending
\* queue nor the approval log.
C10_LogsAppendOnly ==
    [][~Reset =>
        /\ approval_log' = approval_log \/ OneInFront(approval_log, approval_log')
        /\ reminder_log' = reminder_log \/ OneInFront(reminder_log, reminder_log')
        /\ (reminder_log' # reminder_log) =>
              /\ data' = data
              /\ inbox_submissions' = inbox_submissions
              /\ approval_log' = approval_log
    ]_vars

\* both logs hold two different entries
C10_Witness ==
    /\ Len(approval_log) = 2
    /\ approval_log[1] # approval_log[2]
    /\ Len(reminder_log) = 2
    /\ reminder_log[1] # reminder_log[2]

-----------------------------------------------------------------------------
(* The filename guesser.  The two date patterns are restated over the texts that      *)
(* formatting a number produces, and the default over the ordinal of the date.        *)

Separators == {<<"-">>, <<"_">>, <<"/">>}

\* the texts of the numbers lo..hi, two digits each
TwoDigits(lo, hi) == {FormatD(n, 2) : n \in lo..hi}

\* the number a two-digit text stands for
NumberOf(text) == CHOOSE n \in 0..99 : FormatD(n, 2) = text

\* year, separator, month, separator, day start at position i of f
YearFirstAt(f, i) ==
    /\ i + 9 <= Len(f)
    /\ SubSeq(f, i, i + 1) = <<"2", "0">>
    /\ SubSeq(f, i + 2, i + 3) \in TwoDigits(0, 99)
    /\ SubSeq(f, i + 4, i + 4) \in Separators
    /\ SubSeq(f, i + 5, i + 6) \in TwoDigits(1, 12)
    /\ SubSeq(f, i + 7, i + 7) \in Separators
    /\ SubSeq(f, i + 8, i + 9) \in TwoDigits(1, 31)

\* day, separator, month, separator, year start at position i of f
DayFirstAt(f, i) ==
    /\ i + 9 <= Len(f)
    /\ SubSeq(f, i, i + 1) \in TwoDigits(1, 31)
    /\ SubSeq(f, i + 2, i + 2) \in Separators
    /\ SubSeq(f, i + 3, i + 4) \in TwoDigits(1, 12)
    /\ SubSeq(f, i + 5, i + 5) \in Separators
    /\ SubSeq(f, i + 6, i + 7) = <<"2", "0">>
    /\ SubSeq(f, i + 8, i + 9) \in TwoDigits(0, 99)

\* the year, month and day that a match at position i names
YearFirstRead(f, i) ==
    <<2000 + NumberOf(SubSeq(f, i + 2, i + 3)), NumberOf(SubSeq(f, i + 5, i + 6)),
      NumberOf(SubSeq(f, i + 8, i + 9))>>

DayFirstRead(f, i) ==
    <<2000 + NumberOf(SubSeq(f, i + 8, i + 9)), NumberOf(SubSeq(f, i + 3, i + 4)),
      NumberOf(SubSeq(f, i, i + 1))>>

\* the date 365 days after now
YearAhead(now) ==
    CHOOSE dt \in {Date(y, m, d) : y \in {now.year + 1}, m \in 1..12, d \in 1..31} :
        ValidDate(dt.year, dt.month, dt.day) /\ ToOrdinal(dt) = ToOrdinal(now) + 365

\* the known supplier names contain "ACME Foods"
KnowsAcme == \E i \in DOMAIN supplier_names : supplier_names[i] = NameAcme

\* C11: for the file name "ACME_Foods_2026-01-31_cert.pdf" and any list of known
\* suppliers that contains "ACME Foods", at any position, the guess is supplier
\* "ACME Foods", expiry date 2026-01-31 and country UAE.
C11_AcmeFoods ==
    (intake_file = FileAcme /\ KnowsAcme) =>
        /\ guessed.Supplier = NameAcme
        /\ guessed.Expiry_Date = Date(2026, 1, 31)
        /\ guessed.Country = "UAE"

\* C12: the guessed expiry date follows last-valid-match-wins over the two patterns,
\* a pattern's match being the leftmost one, which is the one the search returns: if
\* the day-first pattern matches and names a valid calendar date, the guess is that
\* date, also when the year-first pattern matched a valid date; else if the year-first
\* pattern matches and names a valid calendar date, the guess is that date; else the
\* guess is today + 365 days.  Every file name gets a guess, and its date is a date of
\* the calendar (no error is raised).
C12_LastValidMatchWins ==
    intake_file # NoFile =>
        LET f == intake_file
            dmy == {i \in 1..Len(f) : DayFirstAt(f, i)}
            ymd == {i \in 1..Len(f) : YearFirstAt(f, i)}
            r2 == DayFirstRead(f, Least(dmy))
            r1 == YearFirstRead(f, Least(ymd))
            e == guessed.Expiry_Date
        IN  /\ guessed # NotGuessed
            /\ ValidDate(e.year, e.month, e.day)
            /\ IF dmy # {} /\ ValidDate(r2[1], r2[2], r2[3])
               THEN e = Date(r2[1], r2[2], r2[3])
               ELSE IF ymd # {} /\ ValidDate(r1[1], r1[2], r1[3])
               THEN e = Date(r1[1], r1[2], r1[3])
               ELSE e = YearAhead(today)

\* both patterns matched a valid date and the day-first one won; on another upload a
\* 31 February was passed over for the default
C12_Witness ==
    \/ /\ intake_file = FileBothValid
       /\ guessed.Expiry_Date = Date(2026, 1, 31)
       /\ today = Date(2027, 3, 1)
    \/ /\ intake_file = FileFebruary31
       /\ guessed.Expiry_Date = Date(2028, 2, 29)

-----------------------------------------------------------------------------
(* Conservation of submissions *)

\* the submit numbers of the submissions in a pending queue
Pending(queue) == {queue[i].Seq : i \in 1..Len(queue)}

\* the entries of the approval log with the given action
LogCount(action) ==
    Cardinality({i \in 1..Len(approval_log) : approval_log[i].Action = action})

\* the counts of a state: submits since the last reset against queue and log,
\* approvals against certificates; what the queue holds
Conserved ==
    /\ submits = Len(inbox_submissions) + Len(approval_log)
    /\ LogCount("APPROVED") = Len(data.certificates) - Len(Seed.certificates)
    /\ LogCount("APPROVED") + LogCount("REJECTED") = Len(approval_log)
    /\ \A i \in 1..Len(inbox_submissions) : inbox_submissions[i].State = "PENDING"
    /\ Cardinality(Pending(inbox_submissions)) = Len(inbox_submissions)
    /\ Pending(inbox_submissions) \subseteq 1..submits

\* a step that is not a reset: a submission that has left the queue stays out of it,
\* and a step that logs a decision takes the decided submission, the head, out
NoReturn ==
    submits' >= submits =>
        /\ \A k \in 1..submits :
              k \notin Pending(inbox_submissions) => k \notin Pending(inbox_submissions')
        /\ Len(approval_log') > Len(approval_log) =>
              /\ Len(approval_log') = Len(approval_log) + 1
              /\ Len(data.certificates') <= Len(data.certificates) + 1
              /\ inbox_submissions # <<>>
              /\ inbox_submissions[1].Seq \notin Pending(inbox_submissions')

\* C13: in every state since the last reset, the successful submits are as many as
\* the pending queue and the approval log hold together; the APPROVED log entries are
\* as many as the certificates beyond the seed's; every submission in the pending queue
\* has state PENDING; and a submission that was approved or rejected never comes back
\* to the pending queue, so that it gets at most one log entry and one certificate.
C13_Conservation == Conserved /\ [][Conserved' /\ NoReturn]_vars

\* two submits since the reset, one approved and one rejected
C13_Witness ==
    /\ submits = 2
    /\ inbox_submissions = <<>>
    /\ LogCount("APPROVED") = 1
    /\ LogCount("REJECTED") = 1

====
